---- MODULE Spec2Model ----
(***************************************************************************)
(* Model of the control loop of src/src/main.py: the stepping loop of      *)
(* run_sumo_simulation with its sampling, aggregation and control timers,  *)
(* the Detector Sampler (get_sum_from_traci_detectors), the sample         *)
(* buffers, the hand-off of green-time plans (prepare_logic_update), the   *)
(* pending plan store (pending_logic_updates) and the actuator             *)
(* (apply_pending_updates_on_cycle_start, update_traffic_light_logic).     *)
(*                                                                         *)
(* Time is counted in units of half a second of simulated time.  Phase     *)
(* indices are 0-based as in the source; phases[i + 1] is the duration of  *)
(* phase i.  A Python dict is a function whose DOMAIN is its key set.  A   *)
(* Python float that is a quotient of integers is kept as a fraction in    *)
(* lowest terms.                                                           *)
(***************************************************************************)
EXTENDS Integers, Sequences, FiniteSets, TLC

VARIABLES
    pc,                     \* position of run_sumo_simulation in its loop
    current_time,           \* traci.simulation.getTime() after the last step
    next_control_time,      \* main.py:306, 366
    shared_dict,            \* the hand-off channel (Manager().dict())
    pending_logic_updates,  \* main.py:112, the Pending Plan Store
    sim,                    \* the simulator's traffic lights
    config,                 \* IntersectionConfigManager: static for the run
    outcome,                \* what the latest actuation check did, per intersection
    sim_writes,             \* the writes the latest actuation check sent to the simulator
    fresh,                  \* intersections published by this iteration's control tick
    hist,                   \* per intersection: the history of its plans (see NoHistory)
    sim_config,             \* main.py:252-254, the parameters of simulation.yml
    env,                    \* what the collaborators may do in this run (see ActuationEnv)
    next_sampling_time,     \* main.py:304, 331
    next_aggregation_time,  \* main.py:305, 349
    n_samples,              \* main.py:291, the network-wide sample buffer
    queue_samples,          \* main.py:292, the per-intersection sample buffers
    latest_aggregated_n,    \* main.py:295, 301, 338
    latest_aggregated_queue_lengths,    \* main.py:296, 344
    n_previous,             \* main.py:287, 300, 365
    qg_previous,            \* main.py:288, 364
    ctl_call,               \* the arguments and the result of the latest Controller call,
                            \* and the number of aggregation events before it
    fired,                  \* the timers that fired in this iteration
    agg_log,                \* the aggregation events so far and what the latest one found
    detector_ids,           \* the detector list handed to the Detector Sampler
    sampler_out,            \* what the Detector Sampler did with detector_ids
    sumo_sim,               \* main.py:269-273, 387-388: the SumoSim object
    ending,                 \* main.py:380-383: how the try block was left
    shutdowns               \* main.py:384-389: what the finally block has done so far

act_vars == <<shared_dict, pending_logic_updates, sim, outcome, sim_writes,
              fresh, hist>>

static_vars == <<config, sim_config, env, detector_ids, sampler_out>>

buffer_vars == <<n_samples, queue_samples, latest_aggregated_n,
                 latest_aggregated_queue_lengths, agg_log>>

carry_vars == <<n_previous, qg_previous, ctl_call>>

run_vars == <<sumo_sim, ending, shutdowns>>

vars == <<pc, current_time, next_control_time, next_sampling_time,
          next_aggregation_time, fired, act_vars, static_vars, buffer_vars,
          carry_vars, run_vars>>

----------------------------------------------------------------------------
(* Bounds and program constants *)

MaxTime == 10

total_simulation_time == MaxTime

sim_step == 2

CONTROL_INTERVAL_S == 4

MaxWrites == 2

(* The time budget of the runs that exercise the measurement pipeline *)
MaxTimeMeasure == 60

(* The longest detector list handed to the Detector Sampler on its own *)
(* The time budget of the runs that last several signal cycles *)
MaxTimeLive == 24

MaxDetectors == 3

(* main.py:198-200 *)
road_length == 80

average_length_of_vehicles == 3

num_lane == 1

Ints == {"X", "Y"}

KeyOrder == <<"X", "Y">>

EmptyDict == [k \in {} |-> 0]

PA == [p |-> 4, s |-> <<5>>]

PB == [p |-> 5, s |-> <<4, 6>>]

Plans == {PA, PB}

NoPlan == [p |-> 0, s |-> <<>>]

(* PhaseInfo layouts of the intersection configuration *)
PI_std == [present |-> TRUE, p |-> <<0>>, s |-> << <<2>> >>]

PI_shift == [present |-> TRUE, p |-> <<0>>, s |-> << <<>>, <<2>> >>]

PI_multi == [present |-> TRUE, p |-> <<0>>, s |-> << <<1, 2>> >>]

PI_two == [present |-> TRUE, p |-> <<0>>, s |-> << <<1>>, <<2>> >>]

PI_none == [present |-> FALSE, p |-> <<>>, s |-> <<>>]

PI_y == [present |-> TRUE, p |-> <<0>>, s |-> << <<1>> >>]

PhaseInfoChoices == {PI_std, PI_shift, PI_multi, PI_two, PI_none}

(* Layouts that name phases the three-phase program of tlX does not have *)
PI_out_main == [present |-> TRUE, p |-> <<3, 0>>, s |-> << <<2>> >>]

PI_out_neg == [present |-> TRUE, p |-> <<-1, 0>>, s |-> << <<2>> >>]

PI_out_sec == [present |-> TRUE, p |-> <<0>>, s |-> << <<7>>, <<2>> >>]

PI_out_all == [present |-> TRUE, p |-> <<3>>, s |-> << <<4>> >>]

OutOfRangeChoices == {PI_out_main, PI_out_neg, PI_out_sec, PI_out_all}

(* Outcomes of the calls made while one pending intersection is evaluated:
   at most one call raises, because the first raise ends the evaluation of
   that intersection.  "unexpected" is any exception that is no
   TraCIException and is raised inside the try of main.py:147: an error of
   get_phase_info, a KeyError or TypeError of update_traffic_light_logic on
   a malformed plan, and also a FatalTraCIError of a simulator call, which
   the runs with a failing simulator name "fatal" (see FaultEnv). *)
Faults ==
    {"none", "check_not_exist", "check_error", "read_error", "write_error",
     "unexpected"}

----------------------------------------------------------------------------
(* The simulator (external): signal programs and their cycling *)

ProgX0 == [programID |-> "0", phases |-> <<3, 2, 3>>]

ProgX1 == [programID |-> "1", phases |-> <<2, 3>>]

ProgY0 == [programID |-> "0", phases |-> <<3, 2>>]

ProgramIndex(tl, programID) ==
    CHOOSE i \in 1..Len(tl.programs) : tl.programs[i].programID = programID

CurrentPhases(tl) == tl.programs[ProgramIndex(tl, tl.program)].phases

(* One simulator step for one traffic light: a phase whose switch time has
   been reached is left for the next one, which wraps to 0 after the last. *)
AdvanceLight(tl, now) ==
    IF tl.nextSwitch <= now
    THEN LET n == (tl.phase + 1) % Len(CurrentPhases(tl))
         IN [tl EXCEPT !.phase = n,
                       !.nextSwitch = now + CurrentPhases(tl)[n + 1]]
    ELSE tl

(* setCompleteRedYellowGreenDefinition: the program of that id is replaced whole *)
SimWrite(tl, logic) ==
    [tl EXCEPT !.programs =
        [i \in 1..Len(tl.programs) |->
            IF tl.programs[i].programID = logic.programID
            THEN logic ELSE tl.programs[i]]]

RECURSIVE SimWriteAll(_, _)
SimWriteAll(tl, logics) ==
    IF logics = <<>> THEN tl
    ELSE SimWriteAll(SimWrite(tl, Head(logics)), Tail(logics))

----------------------------------------------------------------------------
(* Config Providers *)

get_traffic_light_id(int_id) == config.tl[int_id]

get_phase_info(int_id) == config.phase_info[int_id]

----------------------------------------------------------------------------
(* update_traffic_light_logic, main.py:79-108 *)

InRange(phase_index, logic) ==
    0 <= phase_index /\ phase_index < Len(logic.phases)

(* The loop over main_phases ended by the first index out of range *)
RECURSIVE SetMainPhases_stop(_, _, _)
SetMainPhases_stop(logic, main_phases, d) ==
    IF main_phases = <<>> THEN logic
    ELSE LET phase_index == Head(main_phases)
         IN IF InRange(phase_index, logic)
            THEN SetMainPhases_stop(
                     [logic EXCEPT !.phases[phase_index + 1] = d],
                     Tail(main_phases), d)
            ELSE logic

RECURSIVE SetMainPhases(_, _, _)
SetMainPhases(logic, main_phases, d) ==
    IF main_phases = <<>> THEN logic
    ELSE LET phase_index == Head(main_phases)
             next == IF InRange(phase_index, logic)
                     THEN [logic EXCEPT !.phases[phase_index + 1] = d]
                     ELSE logic
         IN SetMainPhases(next, Tail(main_phases), d)

NonEmptyGroup(g) == Len(g) > 0

secondary_phases(phase_info) ==
    LET groups == SelectSeq(phase_info.s, NonEmptyGroup)
    IN [i \in 1..Len(groups) |-> groups[i][1]]

RECURSIVE SetSecondaryPhases(_, _, _, _)
SetSecondaryPhases(logic, secondary, i, s_times) ==
    IF i >= Len(secondary) THEN logic
    ELSE LET phase_index == secondary[i + 1]
             next == IF InRange(phase_index, logic) /\ i < Len(s_times)
                     THEN [logic EXCEPT !.phases[phase_index + 1] = s_times[i + 1]]
                     ELSE logic
         IN SetSecondaryPhases(next, secondary, i + 1, s_times)

ModifiedLogic(logic, new_times, phase_info) ==
    SetSecondaryPhases(SetMainPhases(logic, phase_info.p, new_times.p),
                       secondary_phases(phase_info), 0, new_times.s)

(* The sequence of whole-program writes the call sends to the simulator:
   none when the read or the write-back raises (the TraCIException is caught
   inside the function), one otherwise. *)
update_writes_twice(tl, new_times, phase_info, fault) ==
    IF fault = "read_error" THEN <<>>
    ELSE LET partial == SetMainPhases(tl.programs[1], phase_info.p, new_times.p)
             logic == ModifiedLogic(tl.programs[1], new_times, phase_info)
         IN IF fault = "write_error" THEN <<partial>> ELSE <<partial, logic>>

update_traffic_light_logic(tl, new_times, phase_info, fault) ==
    IF fault = "read_error" THEN <<>>
    ELSE LET logic == ModifiedLogic(tl.programs[1], new_times, phase_info)
         IN IF fault = "write_error" THEN <<>> ELSE <<logic>>

----------------------------------------------------------------------------
(* prepare_logic_update, main.py:114-130 *)

DictUpdate_keep(d, g) ==
    [k \in (DOMAIN d) \cup (DOMAIN g) |-> IF k \in DOMAIN d THEN d[k] ELSE g[k]]

DictUpdate(d, g) ==
    [k \in (DOMAIN d) \cup (DOMAIN g) |-> IF k \in DOMAIN g THEN g[k] ELSE d[k]]

DictDel(d, key) == [k \in (DOMAIN d) \ {key} |-> d[k]]

(* A drain that does not look at the activity flag *)
Drains_any_flag(sd) == sd.has_green_times /\ DOMAIN sd.green_times # {}

Drains(sd) == sd.is_active /\ sd.has_green_times /\ DOMAIN sd.green_times # {}

prepare_store(pending, sd) ==
    IF Drains(sd) THEN DictUpdate(pending, sd.green_times) ELSE pending

(* The channel left as the Controller filled it *)
prepare_channel_keep(sd) == sd

prepare_channel(sd) ==
    IF Drains(sd)
    THEN [sd EXCEPT !.has_green_times = FALSE, !.green_times = EmptyDict]
    ELSE sd

----------------------------------------------------------------------------
(* apply_pending_updates_on_cycle_start, main.py:132-182 *)

is_last_phase_any(tl) == tl.phase >= 0

is_last_phase(tl) == tl.phase = Len(CurrentPhases(tl)) - 1

is_about_to_reset_any(tl, now) == tl.nextSwitch - now >= 0

is_about_to_reset_strict(tl, now) == tl.nextSwitch - now < sim_step

is_about_to_reset(tl, now) == tl.nextSwitch - now <= sim_step

AfterApply_keep(pending, int_id) == pending

AfterApply_clear(pending, int_id) == EmptyDict

(* The entry of one intersection after its application, main.py:170-172 *)
AfterApply(pending, int_id) == DictDel(pending, int_id)

(* The branches that leave the entry where it is and go on with the next
   intersection, main.py:144-145, 152-153, 173-174, 176-182 *)
Skip_drop(st, int_id, o) ==
    [st EXCEPT !.outcome[int_id] = o,
               !.pending = IF o \in {"no_tl", "no_phase_info"}
                           THEN DictDel(st.pending, int_id) ELSE @]

Skip(st, int_id, o) == [st EXCEPT !.outcome[int_id] = o]

(* One iteration of the for loop, main.py:142-182.  st carries the store,
   the simulator's lights, and the record of what was done. *)
EvalOne(st, int_id, fault, now) ==
    LET tl_id == get_traffic_light_id(int_id)
        note(o) == Skip(st, int_id, o)
    IN
    IF int_id \notin DOMAIN st.pending THEN st
    ELSE IF tl_id = "" THEN note("no_tl")
    ELSE IF fault = "check_not_exist"
         THEN [note("removed_not_exist") EXCEPT !.pending = DictDel(st.pending, int_id)]
    ELSE IF fault = "check_error" THEN note("kept_error")
    ELSE IF fault = "unexpected" THEN note("kept_unexpected")
    ELSE IF fault = "fatal" THEN note("kept_fatal")
    ELSE LET tl == st.sim[tl_id] IN
         IF ~(\E i \in 1..Len(tl.programs) : tl.programs[i].programID = tl.program)
         THEN note("no_logic")
         ELSE IF ~(is_last_phase(tl) /\ is_about_to_reset(tl, now))
         THEN note("not_due")
         ELSE LET phase_info == get_phase_info(int_id) IN
              IF ~phase_info.present THEN note("no_phase_info")
              ELSE LET written == update_traffic_light_logic(
                                      tl, st.pending[int_id], phase_info, fault)
                   IN [st EXCEPT
                         !.outcome[int_id] =
                             IF written = <<>> THEN "apply_failed" ELSE "applied",
                         !.sim[tl_id] = SimWriteAll(tl, written),
                         !.writes = st.writes \o
                             [i \in 1..Len(written) |->
                                 [tl_id |-> tl_id, logic |-> written[i]]],
                         !.pending = AfterApply(st.pending, int_id)]

(* The for loop with one try around all of it: the first intersection whose
   evaluation fails ends the check *)
RECURSIVE EvalAll_abort(_, _, _, _)
EvalAll_abort(st, keys, faults, now) ==
    IF keys = <<>> THEN st
    ELSE LET r == EvalOne(st, Head(keys), faults[Head(keys)], now) IN
         IF r.outcome[Head(keys)] \in
                {"kept_error", "kept_unexpected", "removed_not_exist",
                 "apply_failed"}
         THEN r
         ELSE EvalAll_abort(r, Tail(keys), faults, now)

RECURSIVE EvalAll(_, _, _, _)
EvalAll(st, keys, faults, now) ==
    IF keys = <<>> THEN st
    ELSE EvalAll(EvalOne(st, Head(keys), faults[Head(keys)], now),
                 Tail(keys), faults, now)

Idle == [i \in Ints |-> "idle"]

apply_pending_updates_on_cycle_start(faults) ==
    EvalAll([pending |-> pending_logic_updates, sim |-> sim,
             outcome |-> Idle, writes |-> <<>>],
            KeyOrder, faults, current_time)

----------------------------------------------------------------------------
(* Numbers.  sum(samples) / len(samples) is a quotient of integers: it is
   kept as a fraction in lowest terms, so that two equal quotients are the
   same value. *)

RECURSIVE Gcd(_, _)
Gcd(a, b) == IF b = 0 THEN a ELSE Gcd(b, a % b)

Rat(n, d) == LET g == Gcd(n, d) IN [num |-> n \div g, den |-> d \div g]

Whole(k) == [num |-> k, den |-> 1]

Zero == Whole(0)

RECURSIVE SumSeq(_)
SumSeq(q) == IF q = <<>> THEN 0 ELSE Head(q) + SumSeq(Tail(q))

----------------------------------------------------------------------------
(* The Detector Sampler: get_sum_from_traci_detectors, main.py:189-208.
   The simulator's answer to traci.lanearea.getLastIntervalOccupancy is a
   function of the detector id: an occupancy in percent, a TraCIException,
   or a FatalTraCIError (which is no TraCIException).  The occupancies used
   are multiples of 15 percent, for which the estimate is a whole number. *)

Occ(o) == [kind |-> "ok", occupancy |-> o]

TraCIException == [kind |-> "error", occupancy |-> 0]

FatalTraCIError == [kind |-> "fatal", occupancy |-> 0]

(* main.py:202 *)
accumulation(space_occupancy) ==
    (road_length * num_lane * space_occupancy)
        \div (100 * average_length_of_vehicles)

RECURSIVE SumLoop(_, _, _)
SumLoop(ids, occupancy, total_accumulation) ==
    IF ids = <<>> THEN [kind |-> "return", value |-> total_accumulation]
    ELSE LET answer == occupancy[Head(ids)] IN
         IF answer.kind = "error" THEN [kind |-> "return", value |-> 0]
         ELSE IF answer.kind = "fatal" THEN [kind |-> "raise", value |-> 0]
         ELSE SumLoop(Tail(ids), occupancy,
                      total_accumulation + accumulation(answer.occupancy))

RECURSIVE SumLoop_partial(_, _, _)
SumLoop_partial(ids, occupancy, total_accumulation) ==
    IF ids = <<>> THEN [kind |-> "return", value |-> total_accumulation]
    ELSE LET answer == occupancy[Head(ids)] IN
         IF answer.kind = "error"
         THEN [kind |-> "return", value |-> total_accumulation]
         ELSE IF answer.kind = "fatal" THEN [kind |-> "raise", value |-> 0]
         ELSE SumLoop_partial(Tail(ids), occupancy,
                      total_accumulation + accumulation(answer.occupancy))

get_sum_partial(ids, occupancy) == SumLoop_partial(ids, occupancy, 0)

get_sum_from_traci_detectors(ids, occupancy) == SumLoop(ids, occupancy, 0)

(* The detectors of the Detector Sampler taken on its own, named after what
   the simulator answers for them *)
SamplerOccupancy ==
    [d0 |-> Occ(0), d15 |-> Occ(15), d30 |-> Occ(30),
     dErr |-> TraCIException, dFatal |-> FatalTraCIError]

DetectorLists ==
    UNION {[1..n -> DOMAIN SamplerOccupancy] : n \in 0..MaxDetectors}

----------------------------------------------------------------------------
(* The detectors of the run (detector_config.json): the network-wide set
   and the queue detectors of the monitored intersections *)

algorithm_detector_ids == <<"n1", "n2">>

solver_detectors == [Y |-> [p |-> <<"yp">>, s |-> << <<"ys">> >>]]

(* What the detectors answer at one instant *)
Quiet == [n1 |-> Occ(0), n2 |-> Occ(0), yp |-> Occ(0), ys |-> Occ(0)]

Light == [n1 |-> Occ(15), n2 |-> Occ(30), yp |-> Occ(15), ys |-> Occ(0)]

Heavy == [n1 |-> Occ(30), n2 |-> Occ(75), yp |-> Occ(30), ys |-> TraCIException]

(* The connection to the simulator is lost while a network-wide detector,
   or a queue detector, is read *)
BrokenNetwork ==
    [n1 |-> Occ(15), n2 |-> FatalTraCIError, yp |-> Occ(15), ys |-> Occ(0)]

BrokenQueue ==
    [n1 |-> Occ(15), n2 |-> Occ(30), yp |-> FatalTraCIError, ys |-> Occ(0)]

(* initialize_queue_samples, main.py:211-220 *)
initialize_queue_samples(detectors) ==
    [i \in DOMAIN detectors |->
        [p |-> <<>>, s |-> [k \in 1..Len(detectors[i].s) |-> <<>>]]]

(* The samples of one intersection, main.py:322-329 *)
sample_queues(samples, details, occupancy) ==
    [p |-> Append(samples.p,
                  get_sum_from_traci_detectors(details.p, occupancy).value),
     s |-> [k \in 1..Len(samples.s) |->
              IF k <= Len(details.s)
              THEN Append(samples.s[k],
                     get_sum_from_traci_detectors(details.s[k], occupancy).value)
              ELSE samples.s[k]]]

(* main.py:338, 341-342 *)
mean(samples) == Rat(SumSeq(samples), Len(samples))

mean_or_zero(samples) == IF samples # <<>> THEN mean(samples) ELSE Zero

(* main.py:337-338: the network-wide value *)
aggregate_n_zero(latest, samples) == mean_or_zero(samples)

aggregate_n(latest, samples) ==
    IF samples # <<>> THEN mean(samples) ELSE latest

(* main.py:340-344: the per-intersection values *)
aggregate_queues(latest, samples) ==
    [i \in DOMAIN latest \cup DOMAIN samples |->
        IF i \in DOMAIN samples
        THEN [p |-> mean_or_zero(samples[i].p),
              s |-> [k \in 1..Len(samples[i].s) |->
                        mean_or_zero(samples[i].s[k])]]
        ELSE latest[i]]

(* clear_samples, main.py:222-228 *)
clear_samples_keep_n(n, q) ==
    [n_samples |-> n,
     queue_samples |-> [i \in DOMAIN q |->
        [p |-> <<>>, s |-> [k \in 1..Len(q[i].s) |-> <<>>]]]]

clear_samples(n, q) ==
    [n_samples |-> <<>>,
     queue_samples |-> [i \in DOMAIN q |->
        [p |-> <<>>, s |-> [k \in 1..Len(q[i].s) |-> <<>>]]]]

(* Every sample buffer of the run, as one sequence of buffers *)
Buffers(n, q) ==
    LET keys == SelectSeq(KeyOrder, LAMBDA i : i \in DOMAIN q) IN
    <<n>> \o [k \in 1..Len(keys) |-> q[keys[k]].p]
          \o [k \in 1..Len(keys) |->
                IF q[keys[k]].s # <<>> THEN q[keys[k]].s[1] ELSE <<>>]

(* How many samples each buffer holds *)
BufferSizes(n, q) ==
    [b \in 1..Len(Buffers(n, q)) |-> Len(Buffers(n, q)[b])]

(* next_x_time += interval, main.py:331, 349, 366 *)
advance_rebased(next_time, interval) == current_time + interval

(* A timer moved past the current time, over the boundaries it missed *)
RECURSIVE advance_past_now(_, _)
advance_past_now(next_time, interval) ==
    IF next_time + interval > current_time THEN next_time + interval
    ELSE advance_past_now(next_time + interval, interval)

advance(next_time, interval) == next_time + interval

(* main.py:364-365: what the control tick carries to the next one *)
carry_stale(aggregated_n, qg_new) ==
    [n_previous |-> n_previous, qg_previous |-> qg_new]

carry(aggregated_n, qg_new) ==
    [n_previous |-> aggregated_n, qg_previous |-> qg_new]

----------------------------------------------------------------------------
(* The Controller (external collaborator): at a control tick it may leave
   the channel as it is or put a new set of plans into it, and it sets the
   activity flag. *)

GreenTimesChoices ==
    UNION {[S -> Plans] : S \in SUBSET Ints}

ControllerOutputs(sd) ==
    {[is_active |-> a, has_green_times |-> sd.has_green_times,
      green_times |-> sd.green_times] : a \in env.actives}
    \cup
    {[is_active |-> a, has_green_times |-> TRUE, green_times |-> g] :
        a \in env.actives, g \in env.greens}

(* What the collaborators may do in a run: the plans and activity flags the
   Controller may publish, the scalar it may return, the simulator faults of
   the actuation check, and what the detectors may answer. *)
ActuationEnv ==
    [greens |-> GreenTimesChoices, actives |-> BOOLEAN, faults |-> Faults,
     qg_news |-> {0}, scenes |-> {Quiet}]

MeasureEnv ==
    [greens |-> {[i \in {"Y"} |-> PA]}, actives |-> {TRUE},
     faults |-> {"none"},
     qg_news |-> {1, 2}, scenes |-> {Light, Heavy}]

(* The runs in which the simulator and the collaborators may fail: the
   exceptions the simulator step, the Controller and the initialisation may
   raise, a FatalTraCIError in a detector read or in the actuation check. *)
FaultEnv ==
    [greens |-> {[i \in {"Y"} |-> pl] : pl \in Plans}, actives |-> {TRUE},
     faults |-> {"none", "fatal", "check_error", "write_error"},
     qg_news |-> {0}, scenes |-> {Light, BrokenNetwork, BrokenQueue},
     step_errors |-> {"TraCIException", "FatalTraCIError"},
     control_errors |-> {"Exception"},
     init_errors |-> {"FatalTraCIError", "Exception"}]

NoCall ==
    [called |-> FALSE, n |-> Zero, n_previous |-> Zero, qg_previous |-> 0,
     q |-> EmptyDict, qg_new |-> 0, events |-> 0]

----------------------------------------------------------------------------
(* History of the plans, kept beside the program's state to state the
   claims.  For each intersection: plan is the plan most recently published
   into the store, overwrote says that this publication replaced a different
   plan that had not been consumed, writes counts the writes to the simulator
   of the plan now (or last) in the store, chan_writes the writes of the plan
   now in the channel, and same says that the channel still holds the very
   plan that is in the store. *)

NoHistory ==
    [plan |-> NoPlan, overwrote |-> FALSE, writes |-> 0,
     chan_writes |-> 0, same |-> FALSE]

Bump(n) == IF n < MaxWrites THEN n + 1 ELSE n

(* The intersections for which the Controller put a new plan into the channel *)
MadeAvailable(sd_before, sd_after) ==
    IF sd_after.has_green_times /\
       (~sd_before.has_green_times \/ sd_after.green_times # sd_before.green_times)
    THEN DOMAIN sd_after.green_times ELSE {}

HistAfterControl(i, sd) ==
    LET avail == i \in MadeAvailable(shared_dict, sd)
        cw == IF avail THEN 0 ELSE hist[i].chan_writes
        after == prepare_channel(sd)
        published == i \in DOMAIN prepare_store(EmptyDict, sd)
    IN IF published
       THEN [plan |-> sd.green_times[i],
             overwrote |-> /\ i \in DOMAIN pending_logic_updates
                           /\ pending_logic_updates[i] # sd.green_times[i],
             writes |-> cw,
             chan_writes |-> cw,
             same |-> after.has_green_times /\ i \in DOMAIN after.green_times]
       ELSE [hist[i] EXCEPT !.chan_writes = cw,
                            !.same = IF avail THEN FALSE ELSE @]

HistAfterActuate(i, o) ==
    IF o = "applied"
    THEN [hist[i] EXCEPT !.writes = Bump(@),
                         !.chan_writes = IF hist[i].same THEN Bump(@) ELSE @]
    ELSE hist[i]

----------------------------------------------------------------------------
(* The top level of run_sumo_simulation, main.py:236, 380-394: the try
   block is left by the end of the loop or by an exception; the except
   clauses take the exception, the finally block runs. *)

TraCIErrors == {"TraCIException", "FatalTraCIError"}

(* Only the first except clause *)
top_level_handler_traci_only(error) ==
    IF error \in TraCIErrors THEN "traci_fault" ELSE "escaped"

(* main.py:380-383 *)
top_level_handler(error) ==
    IF error \in TraCIErrors THEN "traci_fault" ELSE "unexpected_error"

NoShutdown == [runs |-> 0, closes |-> 0, reports |-> 0]

(* A finally block that closes nothing *)
finally_block_no_close(status, done) ==
    [sumo_sim |-> status,
     shutdowns |-> [done EXCEPT !.runs = @ + 1]]

(* main.py:384-389.  status is "absent" before SumoSim(...) has returned,
   "created" before start() has, "running" afterwards, "lost" when
   is_running() no longer answers True, "closed" after close(). *)
finally_block(status, done) ==
    IF status = "running"
    THEN [sumo_sim |-> "closed",
          shutdowns |-> [runs |-> done.runs + 1, closes |-> done.closes + 1,
                         reports |-> done.reports + 1]]
    ELSE [sumo_sim |-> status,
          shutdowns |-> [done EXCEPT !.runs = @ + 1]]

(* What is_running() may answer once a simulator call has raised *)
AfterError(status, error) ==
    IF status = "running" /\ error = "FatalTraCIError"
    THEN {"running", "lost"} ELSE {status}

(* The try block is left in the way `how`, with the simulator as `status` *)
LeaveTry(how, status) ==
    /\ pc' = "done"
    /\ ending' = how
    /\ sumo_sim' = finally_block(status, shutdowns).sumo_sim
    /\ shutdowns' = finally_block(status, shutdowns).shutdowns

(* An exception leaves the try block *)
Raise(error) ==
    \E status \in AfterError(sumo_sim, error) :
        LeaveTry(top_level_handler(error), status)

(* The Detector Sampler calls of one sampling tick, main.py:319-329: does
   one of them raise, and was the network-wide sample appended before *)
SamplingRaises(occupancy) ==
    \/ get_sum_from_traci_detectors(algorithm_detector_ids,
                                    occupancy).kind = "raise"
    \/ \E i \in DOMAIN solver_detectors :
          \/ get_sum_from_traci_detectors(solver_detectors[i].p,
                                          occupancy).kind = "raise"
          \/ \E k \in 1..Len(solver_detectors[i].s) :
                get_sum_from_traci_detectors(solver_detectors[i].s[k],
                                             occupancy).kind = "raise"

----------------------------------------------------------------------------
(* The state machine *)

InitLight(programs, program) ==
    LET tl0 == [programs |-> programs, program |-> program,
                phase |-> 0, nextSwitch |-> 0]
        tl1 == [tl0 EXCEPT !.nextSwitch = CurrentPhases(tl0)[1]]
    IN AdvanceLight(tl1, sim_step)

(* main.py:304-306 *)
initial_timers_late ==
    [sampling |-> sim_config.sampling_interval_s,
     aggregation |-> sim_config.aggregation_interval_s,
     control |-> CONTROL_INTERVAL_S]

initial_timers ==
    [sampling |-> 0,
     aggregation |-> sim_config.aggregation_interval_s,
     control |-> CONTROL_INTERVAL_S]

(* main.py:295-296, 301: the measurement before the first aggregation *)
initial_measurement_zero(reading) ==
    [n |-> Zero, q |-> EmptyDict]

initial_measurement(reading) ==
    [n |-> reading, q |-> EmptyDict]

(* The first simulator step and the initial reading, main.py:286-307 *)
Prepared ==
    /\ current_time = sim_step
    /\ next_sampling_time = initial_timers.sampling
    /\ next_aggregation_time = initial_timers.aggregation
    /\ next_control_time = initial_timers.control
    /\ shared_dict = [is_active |-> FALSE, has_green_times |-> FALSE,
                      green_times |-> EmptyDict]
    /\ pending_logic_updates = EmptyDict
    /\ n_samples = <<>>
    /\ queue_samples = initialize_queue_samples(solver_detectors)
    /\ \E occupancy \in env.scenes :
          /\ get_sum_from_traci_detectors(algorithm_detector_ids,
                                          occupancy).kind = "return"
          /\ n_previous = Whole(get_sum_from_traci_detectors(
                                    algorithm_detector_ids, occupancy).value)
    /\ latest_aggregated_n = initial_measurement(n_previous).n
    /\ latest_aggregated_queue_lengths = initial_measurement(n_previous).q
    /\ qg_previous = 0
    /\ outcome = Idle
    /\ sim_writes = <<>>
    /\ fresh = {}
    /\ hist = [i \in Ints |-> NoHistory]
    /\ ctl_call = NoCall
    /\ fired = {}
    /\ agg_log = [events |-> 0, sizes |-> <<>>]
    /\ ending = "none"
    /\ shutdowns = NoShutdown

InitLoop ==
    /\ pc = "loop"
    /\ sumo_sim = "running"
    /\ Prepared

NotCalled == [kind |-> "not called", value |-> 0]

ShortConfig ==
    [sampling_interval_s |-> 4, aggregation_interval_s |-> 8,
     total_simulation_time |-> total_simulation_time]

Init ==
    /\ env = ActuationEnv
    /\ sim_config = ShortConfig
    /\ detector_ids = <<>>
    /\ sampler_out = NotCalled
    /\ \E px \in {"0", "1"} :
          sim = [tlX |-> InitLight(<<ProgX0, ProgX1>>, px),
                 tlY |-> InitLight(<<ProgY0>>, "0")]
    /\ \E pi \in PhaseInfoChoices, ty \in {"tlY", ""} :
          config = [tl |-> [X |-> "tlX", Y |-> ty],
                    phase_info |-> [X |-> pi, Y |-> PI_y]]
    /\ InitLoop

(* The runs that exercise the measurement pipeline: the sampling interval
   and the aggregation interval are in the ratio of the defaults, 10 s and
   50 s (main.py:252-253), or the aggregation is the more frequent one. *)
MeasureConfigs ==
    {[sampling_interval_s |-> 6, aggregation_interval_s |-> 30,
      total_simulation_time |-> MaxTimeMeasure],
     [sampling_interval_s |-> 8, aggregation_interval_s |-> 4,
      total_simulation_time |-> MaxTimeMeasure]}

InitMeasure ==
    /\ env = MeasureEnv
    /\ sim_config \in MeasureConfigs
    /\ detector_ids = <<>>
    /\ sampler_out = NotCalled
    /\ sim = [tlX |-> InitLight(<<ProgX0, ProgX1>>, "0"),
              tlY |-> InitLight(<<ProgY0>>, "0")]
    /\ config = [tl |-> [X |-> "tlX", Y |-> "tlY"],
                 phase_info |-> [X |-> PI_std, Y |-> PI_y]]
    /\ InitLoop

(* The order of the checks in one iteration, main.py:313-369 *)
following_aggregate_first(position) ==
    CASE position = "loop" -> "aggregate"
      [] position = "aggregate" -> "sample"
      [] position = "sample" -> "control"
      [] position = "control" -> "actuate"
      [] position = "actuate" -> "check"

following(position) ==
    CASE position = "loop" -> "sample"
      [] position = "sample" -> "aggregate"
      [] position = "aggregate" -> "control"
      [] position = "control" -> "actuate"
      [] position = "actuate" -> "check"

(* main.py:312-314: the loop test, the simulator step, the time read *)
NoVehiclesLeft ==
    /\ pc = "loop"
    /\ LeaveTry("no_vehicles", sumo_sim)
    /\ UNCHANGED <<current_time, next_control_time, next_sampling_time,
                   next_aggregation_time, fired, act_vars, static_vars,
                   buffer_vars, carry_vars>>

Step ==
    /\ pc = "loop"
    /\ current_time' = current_time + sim_step
    /\ sim' = [t \in DOMAIN sim |-> AdvanceLight(sim[t], current_time')]
    /\ outcome' = Idle
    /\ sim_writes' = <<>>
    /\ fresh' = {}
    /\ fired' = {}
    /\ pc' = following("loop")
    /\ UNCHANGED <<next_control_time, next_sampling_time,
                   next_aggregation_time, shared_dict, pending_logic_updates,
                   hist, static_vars, run_vars, buffer_vars, carry_vars>>

(* main.py:317-331: the sampling tick *)
SampleTick ==
    /\ pc = "sample"
    /\ current_time >= next_sampling_time
    /\ \E occupancy \in env.scenes :
          /\ ~SamplingRaises(occupancy)
          /\ n_samples' = Append(n_samples,
                 get_sum_from_traci_detectors(algorithm_detector_ids,
                                              occupancy).value)
          /\ queue_samples' =
                 [i \in DOMAIN queue_samples |->
                     sample_queues(queue_samples[i], solver_detectors[i],
                                   occupancy)]
    /\ next_sampling_time' =
           advance(next_sampling_time, sim_config.sampling_interval_s)
    /\ fired' = fired \cup {"sample"}
    /\ pc' = following("sample")
    /\ UNCHANGED <<current_time, next_control_time, next_aggregation_time,
                   latest_aggregated_n, latest_aggregated_queue_lengths,
                   agg_log, act_vars, static_vars, run_vars, carry_vars>>

SampleSkip ==
    /\ pc = "sample"
    /\ current_time < next_sampling_time
    /\ pc' = following("sample")
    /\ UNCHANGED <<current_time, next_control_time, next_sampling_time,
                   next_aggregation_time, fired, act_vars, static_vars,
                   run_vars,
                   buffer_vars, carry_vars>>

(* main.py:334-349: the aggregation tick *)
AggregateTick ==
    /\ pc = "aggregate"
    /\ current_time >= next_aggregation_time
    /\ latest_aggregated_n' = aggregate_n(latest_aggregated_n, n_samples)
    /\ latest_aggregated_queue_lengths' =
           aggregate_queues(latest_aggregated_queue_lengths, queue_samples)
    /\ n_samples' = clear_samples(n_samples, queue_samples).n_samples
    /\ queue_samples' = clear_samples(n_samples, queue_samples).queue_samples
    /\ next_aggregation_time' =
           advance(next_aggregation_time, sim_config.aggregation_interval_s)
    /\ agg_log' = [events |-> agg_log.events + 1,
                   sizes |-> BufferSizes(n_samples, queue_samples)]
    /\ fired' = fired \cup {"aggregate"}
    /\ pc' = following("aggregate")
    /\ UNCHANGED <<current_time, next_control_time, next_sampling_time,
                   act_vars, static_vars, run_vars, carry_vars>>

AggregateSkip ==
    /\ pc = "aggregate"
    /\ current_time < next_aggregation_time
    /\ pc' = following("aggregate")
    /\ UNCHANGED <<current_time, next_control_time, next_sampling_time,
                   next_aggregation_time, fired, act_vars, static_vars,
                   run_vars,
                   buffer_vars, carry_vars>>

(* main.py:352-366: the control tick *)
ControlTick ==
    /\ pc = "control"
    /\ current_time >= next_control_time
    /\ \E sd \in ControllerOutputs(shared_dict) :
          /\ pending_logic_updates' = prepare_store(pending_logic_updates, sd)
          /\ shared_dict' = prepare_channel(sd)
          /\ fresh' = DOMAIN prepare_store(EmptyDict, sd)
          /\ hist' = [i \in Ints |-> HistAfterControl(i, sd)]
    /\ \E qg_new \in env.qg_news :
          /\ ctl_call' = [called |-> TRUE, n |-> latest_aggregated_n,
                          n_previous |-> n_previous,
                          qg_previous |-> qg_previous,
                          q |-> latest_aggregated_queue_lengths,
                          qg_new |-> qg_new,
                          events |-> agg_log.events]
          /\ qg_previous' = carry(latest_aggregated_n, qg_new).qg_previous
          /\ n_previous' = carry(latest_aggregated_n, qg_new).n_previous
    /\ next_control_time' = advance(next_control_time, CONTROL_INTERVAL_S)
    /\ fired' = fired \cup {"control"}
    /\ pc' = following("control")
    /\ UNCHANGED <<current_time, next_sampling_time, next_aggregation_time,
                   sim, outcome, sim_writes, static_vars,
                   run_vars, buffer_vars>>

ControlSkip ==
    /\ pc = "control"
    /\ current_time < next_control_time
    /\ pc' = following("control")
    /\ UNCHANGED <<current_time, next_control_time, next_sampling_time,
                   next_aggregation_time, fired, act_vars, static_vars,
                   run_vars,
                   buffer_vars, carry_vars>>

(* main.py:369: the actuation check, every iteration *)

Actuate ==
    /\ pc = "actuate"
    /\ \E faults \in [Ints -> env.faults] :
          LET r == apply_pending_updates_on_cycle_start(faults) IN
          /\ pending_logic_updates' = r.pending
          /\ sim' = r.sim
          /\ outcome' = r.outcome
          /\ sim_writes' = r.writes
          /\ hist' = [i \in Ints |-> HistAfterActuate(i, r.outcome[i])]
    /\ pc' = following("actuate")
    /\ UNCHANGED <<current_time, next_control_time, next_sampling_time,
                   next_aggregation_time, fired, shared_dict, fresh,
                   static_vars, run_vars, buffer_vars, carry_vars>>

(* main.py:376-378: the time budget *)
budget_reached_strict(time, total) == time > total

budget_reached(time, total) == time >= total

BudgetReached ==
    /\ pc = "check"
    /\ budget_reached(current_time, sim_config.total_simulation_time)
    /\ LeaveTry("budget", sumo_sim)
    /\ UNCHANGED <<current_time, next_control_time, next_sampling_time,
                   next_aggregation_time, fired, act_vars, static_vars,
                   buffer_vars, carry_vars>>

Continue ==
    /\ pc = "check"
    /\ ~budget_reached(current_time, sim_config.total_simulation_time)
    /\ pc' = "loop"
    /\ UNCHANGED <<current_time, next_control_time, next_sampling_time,
                   next_aggregation_time, fired, act_vars, static_vars,
                   run_vars,
                   buffer_vars, carry_vars>>

Next ==
    \/ NoVehiclesLeft
    \/ Step
    \/ SampleTick
    \/ SampleSkip
    \/ AggregateTick
    \/ AggregateSkip
    \/ ControlTick
    \/ ControlSkip
    \/ Actuate
    \/ BudgetReached
    \/ Continue

Spec == Init /\ [][Next]_vars

(* The same loop, run with varying detector answers *)
SpecMeasure == InitMeasure /\ [][Next]_vars

(* The same loop, run with PhaseInfo layouts that name phases out of range *)
LayoutEnv ==
    [greens |-> {[i \in {"X"} |-> pl] : pl \in Plans}, actives |-> {TRUE},
     faults |-> {"none"}, qg_news |-> {0}, scenes |-> {Quiet}]

InitLayouts ==
    /\ env = LayoutEnv
    /\ sim_config = ShortConfig
    /\ detector_ids = <<>>
    /\ sampler_out = NotCalled
    /\ sim = [tlX |-> InitLight(<<ProgX0, ProgX1>>, "0"),
              tlY |-> InitLight(<<ProgY0>>, "0")]
    /\ \E pi \in OutOfRangeChoices :
          config = [tl |-> [X |-> "tlX", Y |-> "tlY"],
                    phase_info |-> [X |-> pi, Y |-> PI_y]]
    /\ InitLoop

SpecLayouts == InitLayouts /\ [][Next]_vars

(* The same loop, run with a sampling interval the step does not divide:
   half a step, so that every step crosses two sampling boundaries, or one
   step and a half, so that only the first iteration does. *)
CoarseConfigs ==
    {[sampling_interval_s |-> 1, aggregation_interval_s |-> 4,
      total_simulation_time |-> MaxTimeMeasure],
     [sampling_interval_s |-> 3, aggregation_interval_s |-> 12,
      total_simulation_time |-> MaxTimeMeasure]}

InitCoarse ==
    /\ env = MeasureEnv
    /\ sim_config \in CoarseConfigs
    /\ detector_ids = <<>>
    /\ sampler_out = NotCalled
    /\ sim = [tlX |-> InitLight(<<ProgX0, ProgX1>>, "0"),
              tlY |-> InitLight(<<ProgY0>>, "0")]
    /\ config = [tl |-> [X |-> "tlX", Y |-> "tlY"],
                 phase_info |-> [X |-> PI_std, Y |-> PI_y]]
    /\ InitLoop

SpecCoarse == InitCoarse /\ [][Next]_vars

(* The exceptions that leave the try block of run_sumo_simulation.
   main.py:312-314: a simulator call of the loop head raises *)
StepFails ==
    /\ pc = "loop"
    /\ \E error \in env.step_errors : Raise(error)
    /\ UNCHANGED <<current_time, next_control_time, next_sampling_time,
                   next_aggregation_time, fired, act_vars, static_vars,
                   buffer_vars, carry_vars>>

(* main.py:319-329: a detector read of the sampling tick raises a
   FatalTraCIError, which get_sum_from_traci_detectors does not catch *)
SampleFails ==
    /\ pc = "sample"
    /\ current_time >= next_sampling_time
    /\ \E occupancy \in env.scenes :
          LET network == get_sum_from_traci_detectors(
                             algorithm_detector_ids, occupancy)
          IN /\ SamplingRaises(occupancy)
             /\ n_samples' = IF network.kind = "return"
                             THEN Append(n_samples, network.value)
                             ELSE n_samples
    /\ Raise("FatalTraCIError")
    /\ UNCHANGED <<current_time, next_control_time, next_sampling_time,
                   next_aggregation_time, fired, queue_samples,
                   latest_aggregated_n, latest_aggregated_queue_lengths,
                   agg_log, act_vars, static_vars, carry_vars>>

(* main.py:356-358: the Controller raises *)
ControlFails ==
    /\ pc = "control"
    /\ current_time >= next_control_time
    /\ \E error \in env.control_errors : Raise(error)
    /\ UNCHANGED <<current_time, next_control_time, next_sampling_time,
                   next_aggregation_time, fired, act_vars, static_vars,
                   buffer_vars, carry_vars>>

(* main.py:238-307: a statement of the initialisation raises *)
InitialisationFails ==
    /\ pc = "init"
    /\ \E error \in env.init_errors : Raise(error)
    /\ UNCHANGED <<current_time, next_control_time, next_sampling_time,
                   next_aggregation_time, fired, act_vars, static_vars,
                   buffer_vars, carry_vars>>

(* The budget of ShortConfig, a budget that the first simulator step, taken
   before the loop (main.py:299), has already used up, and a budget of
   several signal cycles *)
FaultConfigs ==
    {ShortConfig, [ShortConfig EXCEPT !.total_simulation_time = sim_step],
     [ShortConfig EXCEPT !.total_simulation_time = MaxTimeLive]}

InitFaults ==
    /\ env = FaultEnv
    /\ sim_config \in FaultConfigs
    /\ detector_ids = <<>>
    /\ sampler_out = NotCalled
    /\ sim = [tlX |-> InitLight(<<ProgX0, ProgX1>>, "0"),
              tlY |-> InitLight(<<ProgY0>>, "0")]
    /\ config = [tl |-> [X |-> "tlX", Y |-> "tlY"],
                 phase_info |-> [X |-> PI_std, Y |-> PI_y]]
    /\ \/ InitLoop
       \/ /\ pc = "init"
          /\ sumo_sim \in {"absent", "created", "running"}
          /\ Prepared

NextFaults ==
    \/ Next
    \/ StepFails
    \/ SampleFails
    \/ ControlFails
    \/ InitialisationFails

SpecFaults == InitFaults /\ [][NextFaults]_vars

(* The loop is one thread of control that runs on: a step that can be
   taken is taken *)
SpecLive == SpecFaults /\ WF_vars(NextFaults)

(* The Detector Sampler taken on its own: a detector list is drawn, the
   function is applied to it once *)
InitSampler ==
    /\ env = ActuationEnv
    /\ sim_config = ShortConfig
    /\ detector_ids \in DetectorLists
    /\ sampler_out = NotCalled
    /\ sim = [tlX |-> InitLight(<<ProgX0, ProgX1>>, "0"),
              tlY |-> InitLight(<<ProgY0>>, "0")]
    /\ config = [tl |-> [X |-> "tlX", Y |-> "tlY"],
                 phase_info |-> [X |-> PI_std, Y |-> PI_y]]
    /\ InitLoop

SamplerCall ==
    /\ sampler_out = NotCalled
    /\ sampler_out' =
           get_sum_from_traci_detectors(detector_ids, SamplerOccupancy)
    /\ UNCHANGED <<pc, current_time, next_control_time, next_sampling_time,
                   next_aggregation_time, fired, act_vars, config,
                   sim_config, env, detector_ids, buffer_vars, carry_vars,
                   run_vars>>

SpecSampler == InitSampler /\ [][SamplerCall]_vars

----------------------------------------------------------------------------
(* Vocabulary of the claims *)

Resolved(i) == config.tl[i] # "" /\ config.phase_info[i].present

(* The cycle state of intersection i as the simulator holds it: the light is
   in the last phase of its active program and switches within one step. *)
AtCycleBoundary(i) ==
    LET tl == sim[config.tl[i]]
        active == CHOOSE k \in 1..Len(tl.programs) :
                      tl.programs[k].programID = tl.program
    IN /\ tl.phase = Len(tl.programs[active].phases) - 1
       /\ tl.nextSwitch - current_time <= sim_step

Carried(o) == o \in {"applied", "apply_failed"}

WritesTo(ws, tl_id) ==
    SelectSeq(ws, LAMBDA w : w.tl_id = tl_id)

Pending(i) == i \in DOMAIN pending_logic_updates

(* The evaluation of the entry ended in an except clause *)
Failed(o) ==
    o \in {"kept_error", "kept_unexpected", "kept_fatal", "removed_not_exist",
           "apply_failed"}

----------------------------------------------------------------------------
(* C1 *)

(* C1, as stated: in every step, for every pending intersection whose
   traffic-light id and PhaseInfo resolve, the plan is applied in that step
   if and only if the signal is in its last phase and switches within one
   step.  (Read in the claim's favour: "applied" is any application carried
   out, written or not, and a light the simulator reports as not existing is
   left out.) *)
C1_AppliedIffBoundary ==
    [][pc = "actuate" =>
        \A i \in Ints :
            (Pending(i) /\ Resolved(i) /\ outcome'[i] # "removed_not_exist") =>
                (Carried(outcome'[i]) <=> AtCycleBoundary(i))]_vars

(* C1, amended: for every pending intersection whose traffic-light id and
   PhaseInfo resolve and for which the reads of the check raise no error,
   the application is carried out in that step if and
   only if the signal is in its last phase and switches within one step; and
   whatever the simulator answers, no application is carried out, and
   nothing is written, while the signal is in an earlier phase or further
   than one step from its switch. *)
C1_TriggerIff ==
    [][pc = "actuate" =>
        \A i \in Ints :
            /\ (Pending(i) /\ Resolved(i)
                  /\ outcome'[i] \notin {"kept_error", "kept_unexpected",
                                          "removed_not_exist"}) =>
                   (Carried(outcome'[i]) <=> AtCycleBoundary(i))
            /\ (Carried(outcome'[i]) \/ WritesTo(sim_writes', config.tl[i]) # <<>>) =>
                   (Pending(i) /\ AtCycleBoundary(i))]_vars

(* C1, witness: one light applied at its boundary while the other, in an
   earlier phase with at most one step to its switch, was left alone. *)
C1_Witness ==
    /\ pc = "check"
    /\ outcome["Y"] = "applied"
    /\ outcome["X"] = "not_due"
    /\ sim["tlX"].phase < Len(CurrentPhases(sim["tlX"])) - 1
    /\ sim["tlX"].nextSwitch - current_time <= sim_step

----------------------------------------------------------------------------
(* C2 *)

(* C2, as stated: a plan published by the control phase of a step is never
   applied by the actuation phase of that same step. *)
C2_NeverSameStep ==
    \A i \in fresh : outcome[i] # "applied"

(* C2, amended: the control phase of a step only stores the plan and
   writes nothing to the simulator; the actuation phase of that same step
   runs after it and applies the freshly published plan in that same step
   exactly when the intersection is at its cycle boundary in that step (its
   ids resolving and the reads of the check raising no error); otherwise the plan stays in
   the store for a later step. *)
C2_SameStepOnlyAtBoundary ==
    [][/\ pc = "control" => (sim' = sim /\ sim_writes' = <<>>)
       /\ pc = "actuate" =>
            \A i \in fresh :
                /\ Carried(outcome'[i]) => AtCycleBoundary(i)
                /\ (Resolved(i) /\ AtCycleBoundary(i)
                      /\ outcome'[i] \notin {"kept_error", "kept_unexpected",
                                          "removed_not_exist"}) =>
                       Carried(outcome'[i])
                /\ ~Carried(outcome'[i]) /\ outcome'[i] # "removed_not_exist" =>
                       /\ i \in DOMAIN pending_logic_updates'
                       /\ pending_logic_updates'[i] = pending_logic_updates[i]]_vars

(* C2, witness: a plan published at this step's control tick was written to
   the simulator by this step's actuation check. *)
C2_Witness ==
    /\ pc = "check"
    /\ \E i \in fresh : outcome[i] = "applied" /\ WritesTo(sim_writes, config.tl[i]) # <<>>

----------------------------------------------------------------------------
(* C3 *)

(* C3: when a plan is published for an intersection whose earlier plan was
   not consumed, the store holds only the later plan, and every application
   writes the durations of the plan published last. *)
C3_LastWriterWins ==
    [][/\ \A i \in DOMAIN pending_logic_updates' :
             pending_logic_updates'[i] = hist'[i].plan
       /\ pc = "actuate" =>
            \A i \in Ints :
                outcome'[i] = "applied" =>
                    LET tl_id == config.tl[i]
                        ws == WritesTo(sim_writes', tl_id)
                    IN /\ Len(ws) = 1
                       /\ ws[1].logic = ModifiedLogic(sim[tl_id].programs[1],
                                                      hist[i].plan,
                                                      config.phase_info[i])]_vars

(* C3, witness: a plan that replaced a different unconsumed plan was applied *)
C3_Witness ==
    /\ pc = "check"
    /\ \E i \in Ints : outcome[i] = "applied" /\ hist[i].overwrote

----------------------------------------------------------------------------
(* C4 *)

(* C4, as stated: apart from being overwritten, an entry leaves the store
   only when its plan was successfully written or its intersection was
   reported not to exist; after a failed read or write-back of the signal
   program the entry is still in the store. *)
C4_EntryLeavesOnlyOnSuccess ==
    [][pc = "actuate" =>
        \A i \in DOMAIN pending_logic_updates :
            /\ i \notin DOMAIN pending_logic_updates' =>
                   outcome'[i] \in {"applied", "removed_not_exist"}
            /\ outcome'[i] = "apply_failed" =>
                   i \in DOMAIN pending_logic_updates']_vars

----------------------------------------------------------------------------
(* C5 *)

(* C5: no plan is written to the simulator more than once: the plan in the
   store, and the plan in the channel, have each been written at most once. *)
C5_NoDuplicate ==
    \A i \in Ints : hist[i].writes <= 1 /\ hist[i].chan_writes <= 1

(* C5, witness: an intersection whose plan was written earlier stands again
   at its cycle boundary, and this step's actuation check wrote nothing for it. *)
C5_Witness ==
    /\ pc = "check"
    /\ \E i \in Ints :
          /\ hist[i].writes = 1
          /\ outcome[i] = "idle"
          /\ config.tl[i] # ""
          /\ AtCycleBoundary(i)

----------------------------------------------------------------------------
(* C6 *)

(* C6, as stated: after a successful application for X, X has no entry and
   the entry of every other intersection not itself triggered in that step
   is what it was before the actuation check. *)
C6_OthersUntouched ==
    [][pc = "actuate" =>
        \A x \in Ints :
            outcome'[x] = "applied" =>
                /\ x \notin DOMAIN pending_logic_updates'
                /\ \A y \in Ints \ {x} :
                       ~Carried(outcome'[y]) =>
                           /\ Pending(y) <=> y \in DOMAIN pending_logic_updates'
                           /\ Pending(y) =>
                                pending_logic_updates'[y] = pending_logic_updates[y]]_vars

(* C6, amended: after a successful application for X, X has no entry and the
   entry of every other intersection that was neither itself triggered in
   that step nor reported by the simulator as not existing is what it was
   before the actuation check. *)
C6_OthersUntouchedUnlessGone ==
    [][pc = "actuate" =>
        \A x \in Ints :
            outcome'[x] = "applied" =>
                /\ x \notin DOMAIN pending_logic_updates'
                /\ \A y \in Ints \ {x} :
                       (~Carried(outcome'[y]) /\ outcome'[y] # "removed_not_exist") =>
                           /\ Pending(y) <=> y \in DOMAIN pending_logic_updates'
                           /\ Pending(y) =>
                                pending_logic_updates'[y] = pending_logic_updates[y]]_vars

(* C6, witness: Y was applied while X, pending and not at its boundary, kept
   its entry. *)
C6_Witness ==
    /\ pc = "check"
    /\ outcome["Y"] = "applied"
    /\ "Y" \notin DOMAIN pending_logic_updates
    /\ outcome["X"] = "not_due"
    /\ "X" \in DOMAIN pending_logic_updates

----------------------------------------------------------------------------
(* C7 *)

(* C7, as stated: when a plan is applied, every primary phase index gets the
   plan's primary duration, and every phase index of the secondary group at
   position g of the PhaseInfo gets the plan's g-th secondary duration, also
   when some group is empty or lists more than one index. *)
C7_PositionalDurations ==
    [][pc = "actuate" =>
        \A i \in Ints :
            outcome'[i] = "applied" =>
                LET tl_id == config.tl[i]
                    phase_info == config.phase_info[i]
                    plan == pending_logic_updates[i]
                    new == sim'[tl_id].programs[1]
                IN /\ \A k \in 1..Len(phase_info.p) :
                          InRange(phase_info.p[k], new) =>
                              new.phases[phase_info.p[k] + 1] = plan.p
                   /\ \A g \in 1..Len(phase_info.s) :
                          g <= Len(plan.s) =>
                              \A k \in 1..Len(phase_info.s[g]) :
                                  InRange(phase_info.s[g][k], new) =>
                                      new.phases[phase_info.s[g][k] + 1] = plan.s[g]]_vars

----------------------------------------------------------------------------
(* C8 *)

(* C8, as stated: an application leaves unchanged the duration of every
   phase listed neither as primary nor as secondary, and of every secondary
   group whose position is beyond the plan's secondary list, and changes no
   program of another intersection. *)
C8_FrameOfApplication ==
    [][pc = "actuate" =>
        \A i \in Ints :
            outcome'[i] = "applied" =>
                LET tl_id == config.tl[i]
                    phase_info == config.phase_info[i]
                    plan == pending_logic_updates[i]
                    old == sim[tl_id].programs[1]
                    new == sim'[tl_id].programs[1]
                    listed == {phase_info.p[k] : k \in 1..Len(phase_info.p)} \cup
                              UNION {{phase_info.s[g][k] : k \in 1..Len(phase_info.s[g])} :
                                        g \in 1..Len(phase_info.s)}
                IN /\ \A n \in 0..(Len(old.phases) - 1) :
                          n \notin listed => new.phases[n + 1] = old.phases[n + 1]
                   /\ \A g \in 1..Len(phase_info.s) :
                          g > Len(plan.s) =>
                              \A k \in 1..Len(phase_info.s[g]) :
                                  InRange(phase_info.s[g][k], old) =>
                                      new.phases[phase_info.s[g][k] + 1] =
                                          old.phases[phase_info.s[g][k] + 1]
                   /\ \A t \in DOMAIN sim :
                          (t # tl_id /\ \A j \in Ints : ~(config.tl[j] = t /\ outcome'[j] = "applied")) =>
                              sim'[t] = sim[t]]_vars

----------------------------------------------------------------------------
(* C9 *)

(* C9: each application reaches the simulator as exactly one write, of the
   whole program with every duration the application sets; an application
   that fails writes nothing and leaves the simulator's programs as they
   were, as does every check that applies nothing. *)
C9_OneWholeWrite ==
    [][pc = "actuate" =>
        \A i \in Ints :
            config.tl[i] # "" =>
                LET tl_id == config.tl[i]
                    ws == WritesTo(sim_writes', tl_id)
                IN IF outcome'[i] = "applied"
                   THEN /\ Len(ws) = 1
                        /\ ws[1].logic = ModifiedLogic(sim[tl_id].programs[1],
                                                       pending_logic_updates[i],
                                                       config.phase_info[i])
                        /\ sim'[tl_id] = SimWrite(sim[tl_id], ws[1].logic)
                   ELSE ws = <<>> /\ sim'[tl_id] = sim[tl_id]]_vars

(* C9, witness: in one actuation check one application was written and
   another failed, and the simulator received a single write. *)
C9_Witness ==
    /\ pc = "check"
    /\ \E i, j \in Ints : outcome[i] = "applied" /\ outcome[j] = "apply_failed"
    /\ Len(sim_writes) = 1

----------------------------------------------------------------------------
(* C10 *)

(* C10, as stated: when the simulator reports during the actuation check of
   Y that Y does not exist, Y's entry is removed without a write and the
   other pending intersections are still evaluated; a simulator error of any
   other kind leaves Y's entry in the store. *)
C10_OnlyNotExistRemoves ==
    [][pc = "actuate" =>
        \A y \in DOMAIN pending_logic_updates :
            /\ outcome'[y] = "removed_not_exist" =>
                   /\ y \notin DOMAIN pending_logic_updates'
                   /\ WritesTo(sim_writes', config.tl[y]) = <<>>
                   /\ \A z \in DOMAIN pending_logic_updates : outcome'[z] # "idle"
            /\ outcome'[y] \in {"kept_error", "apply_failed"} =>
                   /\ y \in DOMAIN pending_logic_updates'
                   /\ pending_logic_updates'[y] = pending_logic_updates[y]]_vars

----------------------------------------------------------------------------
(* C11 *)

(* C11: in one actuation check every pending intersection is evaluated,
   whatever failed while another one was evaluated or applied (a simulator
   error, an error of the PhaseInfo lookup, a malformed plan); every
   intersection whose ids resolve, which stands at its cycle boundary and
   whose own evaluation does not fail has its plan applied in that step. *)
C11_FailureIsolated ==
    [][pc = "actuate" =>
        \A i \in DOMAIN pending_logic_updates :
            /\ outcome'[i] # "idle"
            /\ (\E j \in DOMAIN pending_logic_updates \ {i} : Failed(outcome'[j])) =>
                   /\ (Resolved(i) /\ AtCycleBoundary(i) /\ ~Failed(outcome'[i])) =>
                          /\ outcome'[i] = "applied"
                          /\ Len(WritesTo(sim_writes', config.tl[i])) = 1
                   /\ (~Failed(outcome'[i]) /\ outcome'[i] # "applied") =>
                          /\ i \in DOMAIN pending_logic_updates'
                          /\ pending_logic_updates'[i] = pending_logic_updates[i]]_vars

(* C11, witness: X, evaluated first, failed with an exception that is no
   simulator error, and Y, evaluated after it, was applied in the same check. *)
C11_Witness ==
    /\ pc = "check"
    /\ outcome["X"] = "kept_unexpected"
    /\ "X" \in DOMAIN pending_logic_updates
    /\ outcome["Y"] = "applied"
    /\ WritesTo(sim_writes, "tlY") # <<>>

----------------------------------------------------------------------------
(* C12 *)

(* C12, as stated: while the traffic-light id of a pending intersection
   cannot be resolved or its PhaseInfo is absent, every step leaves its
   entry in the store, holding the plan published last, no step writes
   anything to the simulator for it, and every actuation check evaluates it
   again. *)
C12_UnresolvedKept ==
    [][\A i \in DOMAIN pending_logic_updates :
          ~Resolved(i) =>
              /\ i \in DOMAIN pending_logic_updates'
              /\ pending_logic_updates'[i] = hist'[i].plan
              /\ WritesTo(sim_writes', config.tl[i]) = <<>>
              /\ pc = "actuate" => outcome'[i] # "idle"]_vars

(* C12, amended: the same, unless the traffic-light id resolves and the
   simulator reports during the reads of the check that this traffic light
   does not exist: then the entry is removed, still without a write. *)
C12_UnresolvedKeptUnlessGone ==
    [][\A i \in DOMAIN pending_logic_updates :
          ~Resolved(i) =>
              /\ outcome'[i] # "removed_not_exist" =>
                     /\ i \in DOMAIN pending_logic_updates'
                     /\ pending_logic_updates'[i] = hist'[i].plan
              /\ outcome'[i] = "removed_not_exist" =>
                     /\ config.tl[i] # ""
                     /\ pc = "actuate"
              /\ WritesTo(sim_writes', config.tl[i]) = <<>>
              /\ config.tl[i] # "" => sim'[config.tl[i]].programs = sim[config.tl[i]].programs
              /\ pc = "actuate" => outcome'[i] # "idle"]_vars

(* C12, witness: late in the run X, without PhaseInfo and standing at its
   cycle boundary, and Y, without traffic-light id, were both evaluated
   again and both kept their entries. *)
C12_Witness ==
    /\ pc = "check"
    /\ current_time >= 2 * CONTROL_INTERVAL_S
    /\ outcome["X"] = "no_phase_info"
    /\ outcome["Y"] = "no_tl"
    /\ {"X", "Y"} \subseteq DOMAIN pending_logic_updates
    /\ hist["X"].overwrote

----------------------------------------------------------------------------
(* C13 *)

(* What the simulator answers for the detectors of the list, in its order *)
Answers == [k \in 1..Len(detector_ids) |-> SamplerOccupancy[detector_ids[k]]]

Failing == {k \in 1..Len(detector_ids) : Answers[k].kind # "ok"}

EstimateSum ==
    SumSeq([k \in 1..Len(detector_ids) |-> accumulation(Answers[k].occupancy)])

(* C13, as stated: the Detector Sampler never propagates a failure; it
   returns 0 for the empty list and whenever at least one occupancy query of
   the list fails, wherever the failing detector stands, and otherwise the
   sum of the estimates of the detectors. *)
C13_ZeroOnAnyFailure ==
    sampler_out # NotCalled =>
        /\ sampler_out.kind = "return"
        /\ detector_ids = <<>> => sampler_out.value = 0
        /\ Failing # {} => sampler_out.value = 0
        /\ Failing = {} => sampler_out.value = EstimateSum

(* C13, amended: the Detector Sampler returns 0 for the empty list; it
   queries the detectors in the order of the list up to the first query that
   fails; when that query raises a TraCIException it returns 0 without
   propagating, whatever was read before it and wherever it stands; when
   that query raises a FatalTraCIError the error propagates to the caller;
   when no query fails it returns the sum of the estimates. *)
C13_ZeroOnTraCIException ==
    sampler_out # NotCalled =>
        /\ detector_ids = <<>> => sampler_out = [kind |-> "return", value |-> 0]
        /\ Failing = {} =>
               sampler_out = [kind |-> "return", value |-> EstimateSum]
        /\ Failing # {} =>
               LET first == CHOOSE k \in Failing : \A j \in Failing : k <= j IN
               IF Answers[first].kind = "error"
               THEN sampler_out = [kind |-> "return", value |-> 0]
               ELSE sampler_out.kind = "raise"

(* C13, witness: two detectors were read with occupancy above 0, the query
   of the third and last one raised a TraCIException, and 0 was returned. *)
C13_Witness ==
    /\ Len(detector_ids) = 3
    /\ detector_ids[1] = "d30"
    /\ detector_ids[2] = "d15"
    /\ detector_ids[3] = "dErr"
    /\ sampler_out = [kind |-> "return", value |-> 0]

----------------------------------------------------------------------------
(* C14 *)

AggregationFires == pc = "aggregate" /\ current_time >= next_aggregation_time

(* v is the arithmetic mean of the samples, and 0 when there is none *)
IsMeanOrZero(v, samples) ==
    IF samples = <<>> THEN v = Zero
    ELSE v.den > 0 /\ v.num * Len(samples) = SumSeq(samples) * v.den

QueueMeansPublished ==
    \A i \in DOMAIN queue_samples :
        /\ i \in DOMAIN latest_aggregated_queue_lengths'
        /\ IsMeanOrZero(latest_aggregated_queue_lengths'[i].p, queue_samples[i].p)
        /\ Len(latest_aggregated_queue_lengths'[i].s) = Len(queue_samples[i].s)
        /\ \A k \in 1..Len(queue_samples[i].s) :
               IsMeanOrZero(latest_aggregated_queue_lengths'[i].s[k],
                            queue_samples[i].s[k])

(* C14, as stated: at every aggregation event the network-wide value and
   every primary and secondary value of every intersection is the arithmetic
   mean of its buffer, and 0 when its buffer is empty. *)
C14_MeanOrZero ==
    [][AggregationFires =>
          /\ IsMeanOrZero(latest_aggregated_n', n_samples)
          /\ QueueMeansPublished]_vars

(* C14, amended: at every aggregation event every primary and secondary
   value of every intersection is the arithmetic mean of its buffer, and 0
   when its buffer is empty; the network-wide value is the arithmetic mean
   of its buffer when that buffer is not empty, and keeps the value it had
   when the buffer is empty. *)
C14_MeanOrKept ==
    [][AggregationFires =>
          /\ IF n_samples = <<>>
             THEN latest_aggregated_n' = latest_aggregated_n
             ELSE IsMeanOrZero(latest_aggregated_n', n_samples)
          /\ QueueMeansPublished]_vars

(* C14, witness: an aggregation event found the buffers empty (every sample
   of a queue detector is above 0): the primary value of Y is 0 and the
   network-wide value is not. *)
C14_Witness ==
    /\ pc = "control"
    /\ "aggregate" \in fired
    /\ latest_aggregated_queue_lengths["Y"].p = Zero
    /\ latest_aggregated_n # Zero

----------------------------------------------------------------------------
(* C15 *)

IsPrefix(a, b) == Len(a) <= Len(b) /\ \A k \in 1..Len(a) : a[k] = b[k]

(* C15: an aggregation event takes the mean of all the samples of each
   buffer that is not empty and leaves every buffer empty; every other step
   leaves in each buffer the samples it held, in their order, and only a
   sampling tick appends, one sample to each buffer.  So each sample stays
   in its buffer until the first aggregation event after it was taken, is
   counted there, and is in no later mean. *)
C15_CountedOnce ==
    [][LET before == Buffers(n_samples, queue_samples)
           after == Buffers(n_samples', queue_samples')
       IN IF AggregationFires
          THEN /\ \A b \in 1..Len(after) : after[b] = <<>>
               /\ n_samples # <<>> =>
                      latest_aggregated_n'.num * Len(n_samples) =
                          SumSeq(n_samples) * latest_aggregated_n'.den
               /\ \A i \in DOMAIN queue_samples :
                      queue_samples[i].p # <<>> =>
                          latest_aggregated_queue_lengths'[i].p.num
                                  * Len(queue_samples[i].p) =
                              SumSeq(queue_samples[i].p)
                                  * latest_aggregated_queue_lengths'[i].p.den
          ELSE \A b \in 1..Len(before) :
                  /\ IsPrefix(before[b], after[b])
                  /\ IF pc = "sample" /\ current_time >= next_sampling_time
                     THEN Len(after[b]) = Len(before[b]) + 1
                     ELSE after[b] = before[b]]_vars

(* C15, witness: the second aggregation event of a run took place in a step
   that also sampled; its mean is no whole number, and every buffer is
   empty after it. *)
C15_Witness ==
    /\ pc = "control"
    /\ fired = {"sample", "aggregate"}
    /\ next_aggregation_time = 3 * sim_config.aggregation_interval_s
    /\ sim_config.sampling_interval_s < sim_config.aggregation_interval_s
    /\ latest_aggregated_n.den > 1
    /\ \A b \in 1..Len(Buffers(n_samples, queue_samples)) :
           Buffers(n_samples, queue_samples)[b] = <<>>

----------------------------------------------------------------------------
(* C16 *)

(* The intervals are in the ratio of 10 s to 50 s, and the step divides the
   sampling interval, so that every boundary falls on a step *)
TenFifty ==
    /\ sim_config.aggregation_interval_s = 5 * sim_config.sampling_interval_s
    /\ sim_config.sampling_interval_s % sim_step = 0
    /\ sim_config.sampling_interval_s > 2 * sim_step

AllEmpty(n, q) == \A b \in 1..Len(Buffers(n, q)) : Buffers(n, q)[b] = <<>>

(* C16, as stated: with these intervals every buffer holds exactly 5 samples
   when an aggregation event fires, the first event included, and none
   right after it. *)
C16_FiveAtEveryEvent ==
    [][(TenFifty /\ AggregationFires) =>
          /\ \A b \in 1..Len(Buffers(n_samples, queue_samples)) :
                 Len(Buffers(n_samples, queue_samples)[b]) = 5
          /\ AllEmpty(n_samples', queue_samples')]_vars

(* C16, amended: with these intervals every buffer holds 6 samples when the
   first aggregation event fires (the sample of the first iteration, taken
   because the sampling timer starts at 0, and the samples of the five
   boundaries up to and including the one of the event), exactly 5 samples
   when every later aggregation event fires, and none right after each. *)
C16_SixThenFive ==
    [][(TenFifty /\ AggregationFires) =>
          /\ \A b \in 1..Len(Buffers(n_samples, queue_samples)) :
                 Len(Buffers(n_samples, queue_samples)[b]) =
                     IF next_aggregation_time = sim_config.aggregation_interval_s
                     THEN 6 ELSE 5
          /\ AllEmpty(n_samples', queue_samples')]_vars

(* C16, witness: the second aggregation event has fired, it found 5 samples
   in every buffer, and the buffers are empty. *)
C16_Witness ==
    /\ TenFifty
    /\ pc = "control"
    /\ "aggregate" \in fired
    /\ agg_log.events = 2
    /\ agg_log.sizes = <<5, 5, 5>>
    /\ AllEmpty(n_samples, queue_samples)

----------------------------------------------------------------------------
(* C17 *)

(* The timer leaves its value only in the step of its own position in the
   loop, with its time reached, and then by its interval; the two other
   timers keep theirs in that step *)
OwnAdvance(next_time, next_time_after, position, interval, others_kept) ==
    /\ next_time_after # next_time =>
           /\ pc = position
           /\ current_time >= next_time
           /\ next_time_after = next_time + interval
           /\ others_kept
    /\ (pc = position /\ current_time >= next_time) =>
           next_time_after = next_time + interval

(* The timer stands at its initial value plus a whole multiple of its interval *)
OnGrid(next_time, initial, interval) ==
    next_time >= initial /\ (next_time - initial) % interval = 0

(* C17: each of the three timers is advanced only in a step in which it
   fires, by exactly its own interval, whatever the current time is; the
   step that advances one leaves the other two as they were; each timer
   always stands at its initial value plus a whole multiple of its
   interval. *)
C17_TimersOnGrid ==
    /\ [](/\ OnGrid(next_sampling_time, 0, sim_config.sampling_interval_s)
          /\ OnGrid(next_aggregation_time, sim_config.aggregation_interval_s,
                    sim_config.aggregation_interval_s)
          /\ OnGrid(next_control_time, CONTROL_INTERVAL_S, CONTROL_INTERVAL_S))
    /\ [][/\ OwnAdvance(next_sampling_time, next_sampling_time', "sample",
                        sim_config.sampling_interval_s,
                        UNCHANGED <<next_aggregation_time, next_control_time>>)
          /\ OwnAdvance(next_aggregation_time, next_aggregation_time',
                        "aggregate", sim_config.aggregation_interval_s,
                        UNCHANGED <<next_sampling_time, next_control_time>>)
          /\ OwnAdvance(next_control_time, next_control_time', "control",
                        CONTROL_INTERVAL_S,
                        UNCHANGED <<next_sampling_time, next_aggregation_time>>)]_vars

(* C17, witness: the three timers fired in one step; the sampling timer had
   fired late before, and each stands one interval after the current time. *)
C17_Witness ==
    /\ pc = "actuate"
    /\ fired = {"sample", "aggregate", "control"}
    /\ current_time > 2 * sim_step
    /\ next_sampling_time = current_time + sim_config.sampling_interval_s
    /\ next_aggregation_time = current_time + sim_config.aggregation_interval_s
    /\ next_control_time = current_time + CONTROL_INTERVAL_S

----------------------------------------------------------------------------
(* C18 *)

(* The positions of the loop in the order of the claim *)
FixedOrder ==
    {<<"loop", "sample">>, <<"sample", "aggregate">>,
     <<"aggregate", "control">>, <<"control", "actuate">>,
     <<"actuate", "check">>, <<"check", "loop">>,
     <<"loop", "done">>, <<"check", "done">>}

(* The check at this position runs in this step exactly when its own time
   is reached *)
GatedByOwnTimer(position, next_time) ==
    pc = position =>
        /\ (position \in fired') <=> (current_time >= next_time)
        /\ fired' \ {position} = fired

(* C18: every iteration passes the sampling, aggregation, control and
   actuation checks in this order; each of the first three runs exactly when
   its own timer is reached; an aggregation event in a step that sampled
   takes its mean over a buffer that ends with the samples of that step; a
   control tick hands the Controller the aggregated values as they stand
   after the aggregation check of that step; the actuation check evaluates
   every pending intersection in every iteration, whatever fired. *)
C18_FixedOrder ==
    [][/\ pc' # pc => <<pc, pc'>> \in FixedOrder
       /\ GatedByOwnTimer("sample", next_sampling_time)
       /\ GatedByOwnTimer("aggregate", next_aggregation_time)
       /\ GatedByOwnTimer("control", next_control_time)
       /\ (pc = "sample" /\ "sample" \in fired') =>
              /\ Len(n_samples') = Len(n_samples) + 1
              /\ pc' = "aggregate"
       /\ (AggregationFires /\ "sample" \in fired) =>
              /\ n_samples # <<>>
              /\ IsMeanOrZero(latest_aggregated_n', n_samples)
              /\ pc' = "control"
       /\ (pc = "control" /\ "control" \in fired') =>
              /\ ctl_call'.n = latest_aggregated_n
              /\ ctl_call'.q = latest_aggregated_queue_lengths
       /\ pc = "actuate" =>
              \A i \in DOMAIN pending_logic_updates : outcome'[i] # "idle"]_vars

(* C18, witness: the three timers fired in one step: the Controller was
   handed the mean taken in this step over the five samples of the second
   window, the last of them taken in this step, and the actuation check
   evaluated the pending plan of Y. *)
C18_Witness ==
    /\ pc = "check"
    /\ fired = {"sample", "aggregate", "control"}
    /\ agg_log.sizes = <<5, 5, 5>>
    /\ ctl_call.n = latest_aggregated_n
    /\ ctl_call.n.den > 1
    /\ ctl_call.n # ctl_call.n_previous
    /\ outcome["Y"] # "idle"

----------------------------------------------------------------------------
(* C19 *)

ControlFires == pc = "control" /\ current_time >= next_control_time

(* The readings the Detector Sampler may return for the network-wide set *)
InitialReadings ==
    {Whole(get_sum_from_traci_detectors(algorithm_detector_ids, o).value) :
        o \in env.scenes}

(* C19: the run starts with the initial detector reading and 0 as retained
   values; every control tick passes the retained values to the Controller
   and then retains its current-accumulation argument and the scalar the
   Controller returned, so that the next tick passes exactly these; no other
   step changes a retained value. *)
C19_CarriedArguments ==
    /\ n_previous \in InitialReadings
    /\ qg_previous = 0
    /\ ~ctl_call.called
    /\ [][IF ControlFires
          THEN /\ ctl_call'.called
               /\ ctl_call'.n_previous = n_previous
               /\ ctl_call'.qg_previous = qg_previous
               /\ ctl_call.called =>
                      /\ ctl_call'.n_previous = ctl_call.n
                      /\ ctl_call'.qg_previous = ctl_call.qg_new
               /\ n_previous' = ctl_call'.n
               /\ qg_previous' = ctl_call'.qg_new
          ELSE UNCHANGED <<n_previous, qg_previous, ctl_call>>]_vars

(* C19, witness: a control tick after an aggregation event: the Controller
   was handed a new mean as current accumulation, a different value as
   previous accumulation, and as carried state the scalar 2 it had returned
   at the tick before; it returned 1, which is now retained. *)
C19_Witness ==
    /\ pc = "actuate"
    /\ "control" \in fired
    /\ agg_log.events >= 1
    /\ ctl_call.n.den > 1
    /\ ctl_call.n_previous # ctl_call.n
    /\ ctl_call.qg_previous = 2
    /\ ctl_call.qg_new = 1
    /\ n_previous = ctl_call.n
    /\ qg_previous = 1

----------------------------------------------------------------------------
(* C20 *)

(* C20: a control tick that transfers plans into the store leaves no plan in
   the channel, and the plans it transfers have not been transferred before:
   none of them has been written to the simulator.  A control tick that
   finds the channel without plans and at which the Controller makes none
   available transfers nothing and leaves the store as it was. *)
C20_DrainedOnce ==
    [][pc = "control" =>
          /\ fresh' # {} =>
                 /\ ~shared_dict'.has_green_times
                 /\ shared_dict'.green_times = EmptyDict
                 /\ \A i \in fresh' :
                        /\ hist'[i].writes = 0
                        /\ pending_logic_updates'[i] = hist'[i].plan
          /\ \A i \in Ints \ fresh' :
                 /\ Pending(i) <=> i \in DOMAIN pending_logic_updates'
                 /\ Pending(i) =>
                        pending_logic_updates'[i] = pending_logic_updates[i]]_vars

(* C20, witness: a control tick with the Controller active has just run; it
   transferred nothing, the channel holds no plan, and the plan of an
   intersection that was drained and written at an earlier step has not
   come back into the store. *)
C20_Witness ==
    /\ pc = "actuate"
    /\ "control" \in fired
    /\ shared_dict.is_active
    /\ ~shared_dict.has_green_times
    /\ fresh = {}
    /\ \E i \in Ints :
           /\ hist[i].writes = 1
           /\ i \notin DOMAIN pending_logic_updates

----------------------------------------------------------------------------
(* C24 *)

(* C24: before the first aggregation event the network-wide value is the
   initial detector reading and there is no per-intersection measurement;
   the network-wide mean and the per-intersection means change at an
   aggregation event and at no other step (sampling, control tick,
   actuation, simulator step), and a control tick hands the Controller the
   measurement as the latest aggregation event left it. *)
C24_ChangesOnlyAtAggregation ==
    /\ [](agg_log.events = 0 =>
              /\ latest_aggregated_n \in InitialReadings
              /\ latest_aggregated_n # Zero
              /\ latest_aggregated_queue_lengths = EmptyDict)
    /\ [][/\ ~AggregationFires =>
                 UNCHANGED <<latest_aggregated_n,
                             latest_aggregated_queue_lengths>>
          /\ ControlFires =>
                 /\ ctl_call'.n = latest_aggregated_n
                 /\ ctl_call'.q = latest_aggregated_queue_lengths
                 /\ (ctl_call.called /\ ctl_call.events = agg_log.events) =>
                        /\ ctl_call'.n = ctl_call.n
                        /\ ctl_call'.q = ctl_call.q]_vars

(* C24, witness: the second control tick after an aggregation event, with
   samples taken since and no aggregation event in between: the Controller
   was handed the same mean as at the tick before, as current and as
   previous accumulation, together with the per-intersection means. *)
C24_Witness ==
    /\ pc = "actuate"
    /\ "control" \in fired
    /\ "aggregate" \notin fired
    /\ ctl_call.events >= 1
    /\ ctl_call.events = agg_log.events
    /\ Len(n_samples) >= 1
    /\ ctl_call.n = latest_aggregated_n
    /\ ctl_call.n_previous = ctl_call.n
    /\ ctl_call.n.den > 1
    /\ "Y" \in DOMAIN ctl_call.q
    /\ ctl_call.q = latest_aggregated_queue_lengths

----------------------------------------------------------------------------
(* C25 *)

HoldsPlans(sd) == sd.has_green_times /\ DOMAIN sd.green_times # {}

(* C25: a control tick at which the activity flag is unset publishes
   nothing, leaves the store unchanged and deletes nothing from the channel.
   A control tick at which the flag is set and the channel held plans
   publishes plans and clears the channel, unless the Controller has just
   replaced the waiting plans by an empty set; what it publishes for an
   intersection is the plan that was waiting, unless the Controller put
   another set of plans at this tick. *)
C25_DrainsOnlyWhenActive ==
    [][ControlFires =>
          /\ ~shared_dict'.is_active =>
                 /\ fresh' = {}
                 /\ pending_logic_updates' = pending_logic_updates
                 /\ shared_dict.has_green_times => shared_dict'.has_green_times
          /\ (shared_dict'.is_active /\ HoldsPlans(shared_dict)) =>
                 \/ /\ fresh' = {}
                    /\ shared_dict'.has_green_times
                    /\ shared_dict'.green_times = EmptyDict
                    /\ pending_logic_updates' = pending_logic_updates
                 \/ /\ fresh' # {}
                    /\ ~shared_dict'.has_green_times
                    /\ \/ /\ fresh' = DOMAIN shared_dict.green_times
                          /\ \A i \in fresh' :
                                 pending_logic_updates'[i] =
                                     shared_dict.green_times[i]
                       \/ \E g \in env.greens :
                             /\ g # shared_dict.green_times
                             /\ fresh' = DOMAIN g
                             /\ \A i \in fresh' :
                                    pending_logic_updates'[i] = g[i]]_vars

(* C25, witness: the second control tick of the run has just run with the
   flag unset; a plan for Y is in the channel, nothing was published and
   the store is empty. *)
C25_Witness ==
    /\ pc = "actuate"
    /\ "control" \in fired
    /\ current_time >= 2 * CONTROL_INTERVAL_S
    /\ ~shared_dict.is_active
    /\ HoldsPlans(shared_dict)
    /\ "Y" \in DOMAIN shared_dict.green_times
    /\ fresh = {}
    /\ pending_logic_updates = EmptyDict

----------------------------------------------------------------------------
(* C28 *)

(* C28, as stated: every program the actuation check writes back to a
   traffic light is the program that was active at that light when the
   check ran, the one whose phase count decided that the light was in its
   last phase. *)
C28_WritesActiveProgram ==
    [][pc = "actuate" =>
          \A k \in 1..Len(sim_writes') :
              sim_writes'[k].logic.programID =
                  sim[sim_writes'[k].tl_id].program]_vars

----------------------------------------------------------------------------
(* C29 *)

(* The duration phase k (counted from 0) has after a plan was applied with
   a layout whose in-range indices are distinct: the secondary time of its
   group, the primary time, or the duration it had. *)
ExpectedDuration(logic, plan, phase_info, k) ==
    LET sec == secondary_phases(phase_info)
        groups == {j \in 1..Len(sec) : sec[j] = k /\ j <= Len(plan.s)}
    IN IF groups # {} THEN plan.s[CHOOSE j \in groups : TRUE]
       ELSE IF \E m \in 1..Len(phase_info.p) : phase_info.p[m] = k
            THEN plan.p
            ELSE logic.phases[k + 1]

HasOutOfRange(phase_info, logic) ==
    \/ \E m \in 1..Len(phase_info.p) : ~InRange(phase_info.p[m], logic)
    \/ \E j \in 1..Len(secondary_phases(phase_info)) :
           ~InRange(secondary_phases(phase_info)[j], logic)

(* C29: when the trigger fires for an intersection whose PhaseInfo names a
   phase out of range, no error is met, one program is written back, it has
   the phases it had, each in-range phase named by the PhaseInfo has the
   duration of the plan and every other phase the duration it had, and the
   plan leaves the store. *)
C29_OutOfRangeIgnored ==
    [][pc = "actuate" =>
          \A i \in Ints :
              LET tl_id == get_traffic_light_id(i)
                  logic == sim[tl_id].programs[1]
                  phase_info == get_phase_info(i)
              IN (/\ Pending(i) /\ Resolved(i) /\ AtCycleBoundary(i)
                  /\ HasOutOfRange(phase_info, logic)) =>
                     /\ outcome'[i] = "applied"
                     /\ i \notin DOMAIN pending_logic_updates'
                     /\ \E k \in 1..Len(sim_writes') :
                            /\ sim_writes'[k].tl_id = tl_id
                            /\ \A other \in 1..Len(sim_writes') :
                                   sim_writes'[other].tl_id = tl_id =>
                                       other = k
                            /\ sim_writes'[k].logic.programID = logic.programID
                            /\ Len(sim_writes'[k].logic.phases) =
                                   Len(logic.phases)
                            /\ \A ph \in 0..(Len(logic.phases) - 1) :
                                   sim_writes'[k].logic.phases[ph + 1] =
                                       ExpectedDuration(logic,
                                           pending_logic_updates[i],
                                           phase_info, ph)
                            /\ sim'[tl_id].programs[1] = sim_writes'[k].logic]_vars

(* C29, witness: plan PB was applied to tlX under the layout whose first
   secondary group names phase 7: phase 0 has the primary time, phase 2 the
   second secondary time, phase 1 is as it was, and X left the store. *)
C29_Witness ==
    /\ pc = "check"
    /\ config.phase_info["X"] = PI_out_sec
    /\ outcome["X"] = "applied"
    /\ Len(sim_writes) = 1
    /\ sim_writes[1].logic = [programID |-> "0", phases |-> <<5, 2, 6>>]
    /\ sim["tlX"].programs[1].phases = <<5, 2, 6>>
    /\ "X" \notin DOMAIN pending_logic_updates

----------------------------------------------------------------------------
(* C26 *)

GrowsByAtMostOne(samples, samples_after) ==
    Len(samples_after) <= Len(samples) + 1

(* C26: a timer that has fired in an iteration is not consulted again in
   that iteration; a step of the program adds at most one sample to each
   sample buffer; a timer that fires moves by one interval whatever the
   number of boundaries the current time has passed, and a sampling timer
   that is not ahead of the current time fires, in this iteration and, as
   long as it stays behind, in every following one. *)
C26_OncePerStep ==
    /\ [](/\ pc = "sample" => "sample" \notin fired
          /\ pc = "aggregate" => "aggregate" \notin fired
          /\ pc = "control" => "control" \notin fired)
    /\ [][/\ GrowsByAtMostOne(n_samples, n_samples')
          /\ \A i \in DOMAIN queue_samples :
                 /\ GrowsByAtMostOne(queue_samples[i].p, queue_samples'[i].p)
                 /\ \A k \in 1..Len(queue_samples[i].s) :
                        GrowsByAtMostOne(queue_samples[i].s[k],
                                         queue_samples'[i].s[k])
          /\ (pc # "sample" /\ pc # "aggregate") =>
                 UNCHANGED <<n_samples, queue_samples>>
          /\ (pc = "sample" /\ next_sampling_time <= current_time) =>
                 /\ "sample" \in fired'
                 /\ Len(n_samples') = Len(n_samples) + 1
                 /\ next_sampling_time' =
                        next_sampling_time + sim_config.sampling_interval_s
          /\ (pc = "sample" /\ next_sampling_time > current_time) =>
                 /\ "sample" \notin fired'
                 /\ UNCHANGED <<n_samples, queue_samples,
                                next_sampling_time>>
          /\ pc = "loop" => (pc' = "done" \/ fired' = {})]_vars

(* C26, witness: with a sampling interval of half a step the sampling tick
   of the third iteration has just fired: the current time has passed eight
   sampling boundaries, the timer has moved three times and is five
   intervals behind, and the buffer holds the one sample of the iteration
   before and the one of this iteration. *)
C26_Witness ==
    /\ sim_config.sampling_interval_s < sim_step
    /\ pc = "aggregate"
    /\ "sample" \in fired
    /\ current_time = 4 * sim_step
    /\ next_sampling_time = 3 * sim_config.sampling_interval_s
    /\ next_sampling_time + sim_step < current_time
    /\ Len(n_samples) = 2

----------------------------------------------------------------------------
(* C21 *)

Budget == sim_config.total_simulation_time

(* The ways the loop is left, and the place each is taken from *)
LeftAsStated ==
    (pc # "done" /\ pc' = "done") =>
        \/ ending' = "budget" /\ pc = "check" /\ current_time >= Budget
        \/ ending' = "no_vehicles" /\ pc = "loop"
        \/ ending' \in {"traci_fault", "unexpected_error"}

LeftAtFirstBudgetCheck ==
    (pc = "check" /\ current_time >= Budget) =>
        pc' = "done" /\ ending' = "budget"

SimulatorSteps == current_time' # current_time

(* C21, as stated: the loop is left eventually; it is left at the end of
   the first iteration whose time is at or beyond the budget, before an
   iteration when no vehicle is expected, or by a simulator fault; and no
   simulator step is taken once the time is at or beyond the budget. *)
C21_NoStepAfterBudget ==
    /\ <>(pc = "done")
    /\ [][/\ LeftAsStated
          /\ LeftAtFirstBudgetCheck
          /\ SimulatorSteps => current_time < Budget]_vars

(* C21, amended: the same, except that the budget is looked at only at the
   end of an iteration: the step of the first iteration is taken even when
   the step of the initialisation has already reached the budget. *)
C21_NoStepAfterBudgetCheck ==
    /\ <>(pc = "done")
    /\ [][/\ LeftAsStated
          /\ LeftAtFirstBudgetCheck
          /\ SimulatorSteps =>
                 \/ current_time < Budget
                 \/ current_time = sim_step /\ fired = {}]_vars

(* C21, witness: the run was left by the budget check of the iteration
   that brought the time to the budget of ShortConfig, after control ticks
   and aggregation events. *)
C21_Witness ==
    /\ pc = "done"
    /\ ending = "budget"
    /\ sim_config = ShortConfig
    /\ current_time = Budget
    /\ agg_log.events >= 1
    /\ ctl_call.called

----------------------------------------------------------------------------
(* C22 *)

(* C22: whatever ends the run, it ends, and the finally block runs then,
   once and not before; no error leaves run_sumo_simulation; a simulator
   that is running when the block runs is closed and its step count is
   reported, once; a simulator that was not started, or that no longer
   answers as running after a fault of the connection, is left as it is. *)
C22_ShutdownOnce ==
    /\ <>(pc = "done" /\ shutdowns.runs = 1)
    /\ [](/\ ending # "escaped"
          /\ pc # "done" => (shutdowns = NoShutdown /\ ending = "none")
          /\ pc = "done" =>
                 /\ shutdowns.runs = 1
                 /\ ending \in {"budget", "no_vehicles", "traci_fault",
                                "unexpected_error"}
                 /\ sumo_sim # "running"
                 /\ shutdowns.closes = shutdowns.reports
                 /\ shutdowns.closes = IF sumo_sim = "closed" THEN 1 ELSE 0)
    /\ [][(pc # "done" /\ pc' = "done") =>
              /\ sumo_sim \in {"absent", "created"} => sumo_sim' = sumo_sim
              /\ sumo_sim = "running" =>
                     \/ sumo_sim' = "closed"
                     \/ sumo_sim' = "lost" /\ ending' = "traci_fault"]_vars

(* C22, witness: the Controller raised at a control tick of a running
   simulation; the error was taken as unexpected, the finally block ran
   once, closed the simulator and reported the step count. *)
C22_Witness ==
    /\ pc = "done"
    /\ ending = "unexpected_error"
    /\ current_time >= CONTROL_INTERVAL_S
    /\ sumo_sim = "closed"
    /\ shutdowns = [runs |-> 1, closes |-> 1, reports |-> 1]

----------------------------------------------------------------------------
(* C23 *)

(* A FatalTraCIError was raised in this step of the program: in a detector
   read, in a simulator call of the loop head, or in the actuation check of
   a pending intersection *)
FatalRaised ==
    \/ pc = "actuate" /\ \E i \in Ints : outcome'[i] = "kept_fatal"
    \/ pc \in {"loop", "sample"} /\ ending' = "traci_fault"

(* C23, as stated: a step in which a FatalTraCIError is raised is the last
   step of the loop: the error reaches the top level, which takes it as a
   simulator fault, and no sampling, aggregation, control or actuation work
   follows it. *)
C23_FatalEndsTheLoop ==
    [][FatalRaised => (pc' = "done" /\ ending' = "traci_fault")]_vars

----------------------------------------------------------------------------
(* C27 *)

(* The longest wait for the next cycle boundary of a light of the model:
   no cycle, whole steps counted, lasts longer *)
CycleBound == 12

AppliedAtBoundary(i) == outcome'[i] = "applied" /\ ~Pending(i)'

(* The plan of intersection i is consumed, or is no longer the one in the
   store *)
AppliedOrReplaced(i, plan) ==
    \/ outcome[i] = "applied"
    \/ Pending(i) /\ pending_logic_updates[i] # plan

LoopStopped == pc = "done" /\ ending # "budget"

Waits(i, plan) ==
    /\ Pending(i)
    /\ pending_logic_updates[i] = plan
    /\ Resolved(i)
    /\ pc # "done"
    /\ current_time + CycleBound <= sim_config.total_simulation_time

(* C27, as stated: an actuation check that finds a pending, resolved
   intersection at its cycle boundary applies the plan, so that a plan is
   applied at the first boundary after its publication; and a plan that
   waits with a cycle of budget left is eventually applied or replaced,
   unless the loop stops before. *)
C27_AppliedByNextBoundary ==
    /\ [][pc = "actuate" =>
              \A i \in Ints :
                  (Pending(i) /\ Resolved(i) /\ AtCycleBoundary(i)) =>
                      AppliedAtBoundary(i)]_vars
    /\ \A i \in Ints : \A plan \in Plans :
           [](Waits(i, plan) =>
                  <>(AppliedOrReplaced(i, plan) \/ LoopStopped))

(* C27, amended: the same for the actuation checks in which no simulator
   call made for the intersection raises: a check in which one does leaves
   the plan for a later boundary or, when the call is one of the
   application, drops it. *)
C27_AppliedUnlessSimulatorFails ==
    /\ [][pc = "actuate" =>
              \A i \in Ints :
                  (Pending(i) /\ Resolved(i) /\ AtCycleBoundary(i)) =>
                      (AppliedAtBoundary(i) \/ Failed(outcome'[i]))]_vars
    /\ \A i \in Ints : \A plan \in Plans :
           [](Waits(i, plan) =>
                  <>(\/ AppliedOrReplaced(i, plan)
                     \/ Failed(outcome[i])
                     \/ LoopStopped))

(* C27, witness: Y's plan, published two steps earlier while the light was
   in its first phase, has just been applied at the cycle boundary. *)
C27_Witness ==
    /\ pc = "check"
    /\ outcome["Y"] = "applied"
    /\ ~Pending("Y")
    /\ fresh = {}
    /\ hist["Y"].plan = PA
    /\ hist["Y"].writes = 1
    /\ Len(sim_writes) = 1
    /\ sim_writes[1].tl_id = "tlY"

====
